---- MODULE Spec2Model ----
(***************************************************************************)
(* Model of the globe visualisation core of arxiv-globe:                   *)
(*   - useGlobeScene (scene graph, render loop, rotation controller),      *)
(*   - useAffiliationVisualization (affiliation-driven rebuild),           *)
(*   - utils: coordinates, markers, curves.                                *)
(*                                                                         *)
(* Numbers.  JavaScript doubles are modelled in fixed point:               *)
(*   lengths, sines and "small" angles in thousandths (1.005 -> 1005),     *)
(*   the globe rotation angle in micro-radians (0.001 rad -> 1000).        *)
(* Three.js objects are modelled by what Object3D.add / remove / traverse  *)
(* / clear do to the parent-child lists.                                   *)
(***************************************************************************)
EXTENDS Integers, Sequences, FiniteSets, TLC

(***************************************************************************)
(* Bounds of the exploration.                                              *)
(***************************************************************************)
MaxLen == 2
MaxUpdates == 2
MaxFrames == 2
MaxFilterLen == 3
MaxPoints == 3
MaxSeekFrames == 200
MaxFetches == 3

(***************************************************************************)
(* Fixed-point arithmetic.                                                 *)
(***************************************************************************)
Abs(a) == IF a < 0 THEN -a ELSE a

Sign(a) == IF a < 0 THEN -1 ELSE IF a > 0 THEN 1 ELSE 0

\* integer division rounding toward zero (symmetric in the sign)
TruncDiv(a, n) == IF a >= 0 THEN a \div n ELSE -((-a) \div n)

\* product of two thousandths
Mul(a, b) == TruncDiv(a * b, 1000)

PiM == 3141
TwoPiM == 6283
HalfPiM == 1571

\* Taylor polynomial of sin on [-pi/2, pi/2], argument and result in thousandths
SinTaylor(a) ==
    LET x2 == (a * a) \div 1000
        c4 == 1000 - (x2 \div 72)
        c3 == 1000 - ((x2 * c4) \div 42000)
        c2 == 1000 - ((x2 * c3) \div 20000)
        c1 == 1000 - ((x2 * c2) \div 6000)
    IN  TruncDiv(a * c1, 1000)

\* Math.sin, argument in milli-radians
SinM(x) ==
    LET r == x % TwoPiM
    IN  IF r <= HalfPiM THEN SinTaylor(r)
        ELSE IF r <= PiM + HalfPiM THEN SinTaylor(PiM - r)
        ELSE SinTaylor(r - TwoPiM)

\* Math.cos, argument in milli-radians
CosM(x) == SinM(x + HalfPiM)

\* polynomial for atan on [0, 1] (Abramowitz-Stegun 4.4.47), thousandths
AtanUnit(r) ==
    LET x2 == (r * r) \div 1000
        p4 == 21
        p3 == TruncDiv(p4 * x2, 1000) - 85
        p2 == TruncDiv(p3 * x2, 1000) + 180
        p1 == TruncDiv(p2 * x2, 1000) - 330
        p0 == TruncDiv(p1 * x2, 1000) + 1000
    IN  TruncDiv(r * p0, 1000)

\* Math.atan2(y, x) in milli-radians, for (y, x) # (0, 0)
Atan2M(y, x) ==
    IF Abs(y) <= Abs(x)
    THEN LET base == AtanUnit((Abs(y) * 1000) \div Abs(x))
         IN  IF x > 0 THEN Sign(y) * base
             ELSE IF y >= 0 THEN PiM - base ELSE -(PiM - base)
    ELSE LET base == AtanUnit((Abs(x) * 1000) \div Abs(y))
         IN  Sign(y) * (HalfPiM - Sign(x) * base)

RECURSIVE SqrtIter(_, _, _)
SqrtIter(n, g, k) ==
    IF k = 0 THEN g
    ELSE LET h == (g + n \div g) \div 2
         IN  IF h >= g THEN g ELSE SqrtIter(n, h, k - 1)

\* floor of the square root (Newton iteration from above; 46340 is the
\* largest root of a 32-bit integer)
Isqrt(n) == IF n <= 0 THEN 0 ELSE SqrtIter(n, IF n < 46340 THEN n ELSE 46340, 40)

(***************************************************************************)
(* Three.Vector3, components in thousandths.                               *)
(***************************************************************************)
VAdd(a, b) == <<a[1] + b[1], a[2] + b[2], a[3] + b[3]>>

VScale(a, s) == <<Mul(a[1], s), Mul(a[2], s), Mul(a[3], s)>>

VDot(a, b) == TruncDiv(a[1] * b[1] + a[2] * b[2] + a[3] * b[3], 1000)

VCross(a, b) ==
    << Mul(a[2], b[3]) - Mul(a[3], b[2]),
       Mul(a[3], b[1]) - Mul(a[1], b[3]),
       Mul(a[1], b[2]) - Mul(a[2], b[1]) >>

VLength(a) == Isqrt(a[1] * a[1] + a[2] * a[2] + a[3] * a[3])

\* Vector3.normalize(): divideScalar(length() || 1)
VNormalize(a) ==
    LET l == VLength(a)
    IN  IF l = 0 THEN a
        ELSE <<TruncDiv(a[1] * 1000, l), TruncDiv(a[2] * 1000, l), TruncDiv(a[3] * 1000, l)>>

(***************************************************************************)
(* coordinates.ts                                                          *)
(***************************************************************************)
\* Math.PI / 180 in micro-radians per degree
DEG2RAD == 17453

\* degrees -> milli-radians
DegToRad(d) == TruncDiv(d * DEG2RAD, 1000)

\* variant: the height is not scaled by the radius
latLonToVector3UnitY(lat, lon, radius) ==
    LET phi == DegToRad(90 - lat)
        theta == DegToRad(lon + 180)
        x == -Mul(Mul(radius, SinM(phi)), CosM(theta))
        y == CosM(phi)
        z == Mul(Mul(radius, SinM(phi)), SinM(theta))
    IN  <<x, y, z>>

latLonToVector3(lat, lon, radius) ==
    LET phi == DegToRad(90 - lat)
        theta == DegToRad(lon + 180)
        x == -Mul(Mul(radius, SinM(phi)), CosM(theta))
        y == Mul(radius, CosM(phi))
        z == Mul(Mul(radius, SinM(phi)), SinM(theta))
    IN  <<x, y, z>>

(***************************************************************************)
(* types/paper.ts: Affiliation.  Only the fields the core reads are kept.  *)
(***************************************************************************)
\* the value null of latitude / longitude (outside every coordinate range)
NULL == 999

\* the affiliations prop when it is undefined
Undefined == <<[geocoded |-> FALSE, latitude |-> -NULL, longitude |-> -NULL]>>

Aff(g, lat, lon) == [geocoded |-> g, latitude |-> lat, longitude |-> lon]

(***************************************************************************)
(* useAffiliationVisualization.ts: filtering                               *)
(***************************************************************************)
\* variant: trusts the geocoded flag alone
isValidAffiliationFlagOnly(aff) == aff.geocoded

isValidAffiliation(aff) ==
    aff.geocoded /\ aff.latitude # NULL /\ aff.longitude # NULL

\* Array.prototype.filter: keeps the accepted entries in input order
RECURSIVE filterValidAffiliations(_)
filterValidAffiliations(affs) ==
    IF affs = <<>> THEN <<>>
    ELSE LET rest == filterValidAffiliations(Tail(affs))
         IN  IF isValidAffiliation(Head(affs)) THEN <<Head(affs)>> \o rest ELSE rest

(***************************************************************************)
(* markers.ts                                                              *)
(***************************************************************************)
MARKER_RADIUS == 1005

\* a resource (geometry or material) is named by the group and the index of
\* the mesh it was allocated for
Res(gid, i) == <<gid, i>>

\* the children of the group returned by createAffiliationMarkers
createAffiliationMarkers(affs, gid) ==
    [i \in 1..Len(affs) |->
        [geometry |-> Res(gid, i),
         material |-> Res(gid, i),
         path |-> <<latLonToVector3(affs[i].latitude, affs[i].longitude, MARKER_RADIUS)>>,
         scale |-> 1000]]

\* variant: the pulse only grows the markers ("1.0 to 1.3")
updateMarkerPulseGrowOnly(children, time) ==
    LET scale == 1000 + Mul(Abs(SinM(Mul(time, 2000))), 300)
    IN  [i \in 1..Len(children) |-> [children[i] EXCEPT !.scale = scale]]

\* updateMarkerPulse: every child mesh gets the same scalar scale
updateMarkerPulse(children, time) ==
    LET scale == 1000 + Mul(SinM(Mul(time, 2000)), 300)
    IN  [i \in 1..Len(children) |-> [children[i] EXCEPT !.scale = scale]]

(***************************************************************************)
(* curves.ts                                                               *)
(***************************************************************************)
\* Math.acos of a clamped cosine, in milli-radians
AcosM(d) ==
    Atan2M(Isqrt(1000000 - d * d), d)

Clamp(d) == IF d > 1000 THEN 1000 ELSE IF d < -1000 THEN -1000 ELSE d

\* variant: the vectors are not normalised before the dot product
calculateArcHeightRaw(point1, point2) ==
    LET angle == AcosM(Clamp(VDot(point1, point2)))
    IN  400 + TruncDiv(angle * 1600, PiM)

calculateArcHeight(point1, point2) ==
    LET p1 == VNormalize(point1)
        p2 == VNormalize(point2)
        angle == AcosM(Clamp(VDot(p1, p2)))
    IN  400 + TruncDiv(angle * 1600, PiM)

calculateControlPoint(point1, point2, arcHeight) ==
    LET midpoint == VScale(VAdd(point1, point2), 500)
    IN  VScale(VNormalize(midpoint), 1000 + arcHeight)

\* the tube mesh of a bezier curve through the given points
createTubeMesh(curve, gid, i) ==
    [geometry |-> Res(gid, i), material |-> Res(gid, i), path |-> curve, scale |-> 1000]

QuadraticBezierCurve3(p1, p2) ==
    <<p1, calculateControlPoint(p1, p2, calculateArcHeight(p1, p2)), p2>>

\* affiliations.map(aff => latLonToVector3(aff.latitude, aff.longitude, MARKER_RADIUS))
RECURSIVE MapPositions(_)
MapPositions(affs) ==
    IF affs = <<>> THEN <<>>
    ELSE <<latLonToVector3(Head(affs).latitude, Head(affs).longitude, MARKER_RADIUS)>>
         \o MapPositions(Tail(affs))

\* for (i = 0; i < positions.length - 1; i++): one tube per consecutive pair
RECURSIVE ConsecutiveCurves(_, _, _)
ConsecutiveCurves(positions, gid, i) ==
    IF i > Len(positions) - 1 THEN <<>>
    ELSE <<createTubeMesh(QuadraticBezierCurve3(positions[i], positions[i + 1]), gid, i)>>
         \o ConsecutiveCurves(positions, gid, i + 1)

\* variant: closes the loop whenever asked to
ShouldCloseAlways(closeLoop, n) == closeLoop

\* closeLoop && positions.length > 2
ShouldClose(closeLoop, n) == closeLoop /\ n > 2

\* the children of the group returned by createCurvesBetweenMarkers
createCurvesBetweenMarkers(affs, closeLoop, gid) ==
    IF Len(affs) < 2 THEN <<>>
    ELSE LET positions == MapPositions(affs)
             n == Len(positions)
             consecutive == ConsecutiveCurves(positions, gid, 1)
         IN  IF ShouldClose(closeLoop, n)
             THEN Append(consecutive,
                         createTubeMesh(QuadraticBezierCurve3(positions[n], positions[1]), gid, n))
             ELSE consecutive

\* what createCurvesBetweenMarkers writes to the console: the early return
\* for fewer than two points (lines 53-55) logs nothing, nor does the rest
createCurvesWarnings(affs) == <<>>

\* variant: the y axis is the reference axis everywhere
SelfLoopTangentNoFallback(radialDir) ==
    VNormalize(VCross(<<0, 1000, 0>>, radialDir))

\* the tangent direction of the self loop (lines 117-123)
SelfLoopTangent(radialDir) ==
    IF Abs(radialDir[2]) > 990
    THEN VNormalize(VCross(<<1000, 0, 0>>, radialDir))
    ELSE VNormalize(VCross(<<0, 1000, 0>>, radialDir))

\* the children of the group returned by createSelfLoopCurve
createSelfLoopCurve(aff, gid) ==
    LET position == latLonToVector3(aff.latitude, aff.longitude, MARKER_RADIUS)
        radialDir == VNormalize(position)
        tangent == SelfLoopTangent(radialDir)
        loopHeight == 500
        control1 == VAdd(VAdd(position, VScale(tangent, loopHeight)),
                         VScale(radialDir, Mul(loopHeight, 500)))
        control2 == VAdd(VAdd(position, VScale(tangent, -loopHeight)),
                         VScale(radialDir, Mul(loopHeight, 500)))
    IN  <<createTubeMesh(<<position, control1, control2, position>>, gid, 1)>>

(***************************************************************************)
(* Three.js scene graph.  A node is named by its kind and, for the groups  *)
(* created by the affiliation effect, by its allocation number.            *)
(***************************************************************************)
Node(kind, id) == [kind |-> kind, id |-> id]

GlobeGroup == Node("globeGroup", 0)

GroupNode(gid) == Node("group", gid)

\* a null group reference (group numbers start at 1)
NoGroup == 0

Range(seq) == {seq[i] : i \in DOMAIN seq}

\* Object3D.add of an object that has no parent yet
ObjAdd(children, node) == Append(children, node)

\* variant: splice(indexOf(node), 1) without the test for -1, which drops
\* the last child when the object is not a direct child
ObjRemoveSplice(children, node) ==
    IF \E i \in DOMAIN children : children[i] = node
    THEN SelectSeq(children, LAMBDA c : c # node)
    ELSE SubSeq(children, 1, Len(children) - 1)

\* Object3D.remove: drops the object only if it is a direct child
ObjRemove(children, node) == SelectSeq(children, LAMBDA c : c # node)

\* variant: nothing is disposed
DisposeNone(live, resources) == live

\* the dispose() calls made by traverse on the Mesh children of a group
DisposeAll(live, resources) == live \ resources

\* variant: the children stay in the group
ObjClearNothing(group) == group

\* Object3D.clear
ObjClear(group) == [group EXCEPT !.children = <<>>]

\* no utility function has been called directly
NoCall == [fn |-> "none", args |-> <<>>, result |-> <<>>, warnings |-> <<>>]

VARIABLES
    affiliations,        \* the affiliations prop of the last effect run
    validAffiliations,   \* the valid subset that effect run computed
    rotationY,           \* globeGroup.rotation.y, micro-radians
    targetRotationY,     \* targetRotationYRef.current, micro-radians
    isRotating,          \* isRotatingRef.current
    sceneChildren,       \* scene.children
    globeChildren,       \* globeGroup.children
    groups,              \* every group the effect has created, by number
    geometries,          \* geometries allocated and not disposed
    materials,           \* materials allocated and not disposed
    markerGroupRef,      \* useAffiliationVisualization: markerGroupRef.current
    curveGroupRef,       \* useAffiliationVisualization: curveGroupRef.current
    pulseGroupRef,       \* useGlobeScene: markerGroupRef.current
    lastRender,          \* what the last renderer.render call drew
    updates,             \* number of effect runs so far
    frames,              \* number of render frames so far
    call,                \* the last direct call of a utility function, if any
    mounted,             \* the Globe component is mounted
    imageLoad,           \* the state of imageLoader.load("/worldmap.png")
    selectedCategory,    \* page.tsx: the selectedCategory state
    currentIndex,        \* page.tsx: the currentIndex state
    paperData,           \* page.tsx: the paperData state (the displayed paper)
    loading,             \* page.tsx: the loading state
    error,               \* page.tsx: the error state
    fetches,             \* calls of fetchPaper awaiting their response
    requests             \* number of fetchPaper calls so far

vars == <<affiliations, validAffiliations, rotationY, targetRotationY, isRotating, sceneChildren,
          globeChildren, groups, geometries, materials, markerGroupRef,
          curveGroupRef, pulseGroupRef, lastRender, updates, frames, call,
          mounted, imageLoad, selectedCategory, currentIndex, paperData, loading,
          error, fetches, requests>>

\* the state of the page component
pageVars == <<selectedCategory, currentIndex, paperData, loading, error, fetches, requests>>

\* the mutable Three.js world as one value, threaded through the helpers
World == [scene |-> sceneChildren, globe |-> globeChildren, groups |-> groups,
          geometries |-> geometries, materials |-> materials]

(***************************************************************************)
(* markers.ts / curves.ts: removal                                         *)
(***************************************************************************)
removeMarkers(w, gid) ==
    LET meshes == w.groups[gid].children
    IN  [w EXCEPT !.scene = ObjRemove(@, GroupNode(gid)),
                  !.geometries = DisposeAll(@, {meshes[i].geometry : i \in DOMAIN meshes}),
                  !.materials = DisposeAll(@, {meshes[i].material : i \in DOMAIN meshes}),
                  !.groups[gid] = ObjClear(@)]

removeCurves(w, gid) ==
    LET meshes == w.groups[gid].children
    IN  [w EXCEPT !.scene = ObjRemove(@, GroupNode(gid)),
                  !.geometries = DisposeAll(@, {meshes[i].geometry : i \in DOMAIN meshes}),
                  !.materials = DisposeAll(@, {meshes[i].material : i \in DOMAIN meshes}),
                  !.groups[gid] = ObjClear(@)]

\* a freshly constructed group (with its meshes) attached to the globe group
AddGroup(w, kind, children, list) ==
    LET gid == Len(w.groups) + 1
    IN  [w EXCEPT !.groups = Append(@, [kind |-> kind, children |-> children, list |-> list]),
                  !.globe = ObjAdd(@, GroupNode(gid)),
                  !.geometries = @ \cup {children[i].geometry : i \in DOMAIN children},
                  !.materials = @ \cup {children[i].material : i \in DOMAIN children}]

(***************************************************************************)
(* useAffiliationVisualization.ts: the effect                              *)
(***************************************************************************)
\* !affiliations || affiliations.length === 0
NoAffiliations(list) == list = Undefined \/ Len(list) = 0

\* -Math.atan2(x, z) of the radius-1 position, micro-radians.  Math.atan2 of
\* two zeros is 0, pi or -pi depending on the signs of the zeros, which the
\* fixed-point numbers do not carry: all three are possible.
TargetRotations(firstPosition) ==
    IF firstPosition[1] = 0 /\ firstPosition[3] = 0
    THEN {0, PiM * 1000, -(PiM * 1000)}
    ELSE {-(Atan2M(firstPosition[1], firstPosition[3]) * 1000)}

\* the targets of an affiliation.  At the south pole Math.sin(Math.PI) is a
\* tiny positive number, so x and z keep the direction of the longitude
TargetsOf(aff) ==
    LET firstPosition == latLonToVector3(aff.latitude, aff.longitude, 1000)
        theta == DegToRad(aff.longitude + 180)
    IN  IF firstPosition[1] = 0 /\ firstPosition[3] = 0 /\ (CosM(theta) # 0 \/ SinM(theta) # 0)
        THEN TargetRotations(firstPosition)
             \cup {-(Atan2M(-CosM(theta), SinM(theta)) * 1000)}
        ELSE TargetRotations(firstPosition)

\* variant: the last valid affiliation is centred
lastAffiliation(valid) == valid[Len(valid)]

\* const firstAffiliation = validAffiliations[0]
firstAffiliation(valid) == valid[1]

\* variant: a seek in progress keeps its target
TriggerRotationIfIdle(rotation, target) ==
    IF rotation.isRotating THEN rotation
    ELSE [rotation EXCEPT !.target = target, !.isRotating = TRUE]

\* variant: the globe is also turned to the target at once
TriggerRotationJump(rotation, target) ==
    [y |-> target, target |-> target, isRotating |-> TRUE]

\* targetRotationYRef.current = ...; isRotatingRef.current = true
\* (globeGroup.rotation.y is not written)
TriggerRotation(rotation, target) ==
    [rotation EXCEPT !.target = target, !.isRotating = TRUE]

\* variants: the cleanup of one kind of group is left out
CleanupMarkersSkipped(w) == w

CleanupCurvesSkipped(w) == w

\* cleanup of the existing markers and curves (lines 53-62)
CleanupMarkers(w) ==
    IF markerGroupRef # NoGroup THEN removeMarkers(w, markerGroupRef) ELSE w

CleanupCurves(w) ==
    IF curveGroupRef # NoGroup THEN removeCurves(w, curveGroupRef) ELSE w

\* variant: without the special case for a single affiliation
CurvesForNoSelfLoop(valid, gid) ==
    createCurvesBetweenMarkers(valid, Len(valid) > 2, gid)

\* the curve group built for the valid affiliations (lines 95-103)
CurvesFor(valid, gid) ==
    IF Len(valid) = 1 THEN createSelfLoopCurve(valid[1], gid)
    ELSE createCurvesBetweenMarkers(valid, Len(valid) > 2, gid)

\* variant: the render loop's reference keeps the group it already holds
setMarkerGroupStale(group) == pulseGroupRef

\* useGlobeScene.setMarkerGroup: the group the render loop pulses from now on
setMarkerGroup(group) == group

UpdateAffiliations(list) ==
    /\ mounted
    /\ updates < MaxUpdates
    /\ updates' = updates + 1
    /\ affiliations' = list
    /\ \E valid \in {IF NoAffiliations(list) THEN <<>> ELSE filterValidAffiliations(list)} :
       LET cleaned == CleanupCurves(CleanupMarkers(World))
       IN  validAffiliations' = valid /\
           IF valid = <<>>
           THEN \E cl \in {cleaned} :
                /\ sceneChildren' = cl.scene
                /\ globeChildren' = cl.globe
                /\ groups' = cl.groups
                /\ geometries' = cl.geometries
                /\ materials' = cl.materials
                /\ markerGroupRef' = NoGroup
                /\ curveGroupRef' = NoGroup
                /\ pulseGroupRef' = IF markerGroupRef # NoGroup
                                    THEN setMarkerGroup(NoGroup) ELSE pulseGroupRef
                /\ UNCHANGED <<rotationY, targetRotationY, isRotating>>
           ELSE LET mid == Len(cleaned.groups) + 1
                    withMarkers == AddGroup(cleaned, "markers",
                                            createAffiliationMarkers(valid, mid), updates + 1)
                    cid == mid + 1
                    withCurves == AddGroup(withMarkers, "curves",
                                           CurvesFor(valid, cid), updates + 1)
                IN  \E wc \in {withCurves} :
                    /\ \E target \in TargetsOf(firstAffiliation(valid)) :
                          LET r == TriggerRotation([y |-> rotationY,
                                                    target |-> targetRotationY,
                                                    isRotating |-> isRotating], target)
                          IN  /\ rotationY' = r.y
                              /\ targetRotationY' = r.target
                              /\ isRotating' = r.isRotating
                    /\ sceneChildren' = wc.scene
                    /\ globeChildren' = wc.globe
                    /\ groups' = wc.groups
                    /\ geometries' = wc.geometries
                    /\ materials' = wc.materials
                    /\ markerGroupRef' = mid
                    /\ pulseGroupRef' = setMarkerGroup(mid)
                    /\ curveGroupRef' = cid
    /\ UNCHANGED <<pageVars, lastRender, frames, call, mounted, imageLoad>>

(***************************************************************************)
(* useGlobeScene.ts: the render loop                                       *)
(***************************************************************************)
PI == 3141593

\* variant: if (diff > Math.PI) diff -= 2 * Math.PI
WrapDownOnce(diff) == IF diff > PI THEN diff - 2 * PI ELSE diff

\* while (diff > Math.PI) diff -= 2 * Math.PI
RECURSIVE WrapDown(_)
WrapDown(diff) == IF diff > PI THEN WrapDown(diff - 2 * PI) ELSE diff

\* while (diff < -Math.PI) diff += 2 * Math.PI
RECURSIVE WrapUp(_)
WrapUp(diff) == IF diff < -PI THEN WrapUp(diff + 2 * PI) ELSE diff

\* the shortest angular distance measured by a frame
ShortestDiff(target, current) == WrapUp(WrapDown(target - current))

\* variant: diff * 0.005
DampedStepSlow(diff) == TruncDiv(diff * 5, 1000)

\* diff * 0.05
DampedStep(diff) == TruncDiv(diff * 5, 100)

\* variant: Math.abs(diff) < 0.1
CloseEnoughWide(diff) == Abs(diff) < 100000

\* Math.abs(diff) < 0.01
CloseEnough(diff) == Abs(diff) < 10000

\* variant: the idle branch adds 0.01
StepRotationFastIdle(current, target, rotating) ==
    IF rotating
    THEN LET diff == ShortestDiff(target, current)
         IN  IF CloseEnough(diff)
             THEN [y |-> target, isRotating |-> FALSE]
             ELSE [y |-> current + DampedStep(diff), isRotating |-> TRUE]
    ELSE [y |-> current + 10000, isRotating |-> FALSE]

\* the rotation part of renderScene: the new rotation.y and isRotating
StepRotation(current, target, rotating) ==
    IF rotating
    THEN LET diff == ShortestDiff(target, current)
         IN  IF CloseEnough(diff)
             THEN [y |-> target, isRotating |-> FALSE]
             ELSE [y |-> current + DampedStep(diff), isRotating |-> TRUE]
    ELSE [y |-> current + 1000, isRotating |-> FALSE]

\* is the group a descendant of the scene
Attached(scene, globe, gid) ==
    \/ GroupNode(gid) \in Range(scene)
    \/ GlobeGroup \in Range(scene) /\ GroupNode(gid) \in Range(globe)

\* renderer.render(scene, camera): the marker and curve meshes reached from
\* the scene, as <<kind, list, index, scale>>
Render(scene, globe, grps) ==
    UNION { { <<grps[g].kind, grps[g].list, i, grps[g].children[i].scale>> :
                i \in DOMAIN grps[g].children } :
            g \in {h \in DOMAIN grps : Attached(scene, globe, h)} }

\* sample values of Date.now() * 0.001, thousandths of a second
Clock == {785, 2356}

renderScene(now) ==
    /\ LET r == StepRotation(rotationY, targetRotationY, isRotating)
       IN  /\ rotationY' = r.y
           /\ isRotating' = r.isRotating
    /\ groups' = IF pulseGroupRef # NoGroup
                 THEN [groups EXCEPT ![pulseGroupRef].children = updateMarkerPulse(@, now)]
                 ELSE groups
    /\ lastRender' = Render(sceneChildren, globeChildren, groups')
    /\ frames' = frames + 1
    /\ UNCHANGED <<pageVars, affiliations, validAffiliations, targetRotationY, sceneChildren, globeChildren,
                   geometries, materials, markerGroupRef, curveGroupRef,
                   pulseGroupRef, updates, call, mounted, imageLoad>>

(***************************************************************************)
(* page.tsx: the Home component                                            *)
(***************************************************************************)
\* the value null of paperData and of error
NoPaper == [category |-> "none", index |-> -1, has_more |-> FALSE]

NoError == "null"

\* some values of the category dropdown; "cs.AI" is the initial selection
Categories == {"cs.AI", "cs.LG", "quant-ph"}

\* fetchPaper up to its first await: loading on, error cleared, request sent
fetchPaper(category, index) ==
    /\ requests < MaxFetches
    /\ requests' = requests + 1
    /\ loading' = TRUE
    /\ error' = NoError
    /\ fetches' = fetches \cup {[id |-> requests + 1, category |-> category, index |-> index]}

\* Home after its first render: the category effect has run once and the
\* fetch of the first paper of "cs.AI" is awaiting its response
PageInit ==
    /\ selectedCategory = "cs.AI"
    /\ currentIndex = 0
    /\ paperData = NoPaper
    /\ loading = TRUE
    /\ error = NoError
    /\ fetches = {[id |-> 1, category |-> "cs.AI", index |-> 0]}
    /\ requests = 1

(***************************************************************************)
(* The mounted globe: affiliation updates interleaved with render frames.  *)
(***************************************************************************)
\* the affiliation records the updates draw from
AffPool == { Aff(TRUE, 0, 0), Aff(TRUE, 30, -90), Aff(TRUE, NULL, 30) }

SeqsUpTo(S, n) == UNION {[1..k -> S] : k \in 0..n}

\* a longer list: three valid entries around an invalid one, so that the
\* curve network closes into a ring
MixedList == << Aff(TRUE, 30, -90), Aff(TRUE, NULL, 30), Aff(TRUE, 0, 0), Aff(TRUE, 30, -90) >>

AffLists == SeqsUpTo(AffPool, MaxLen) \cup {Undefined, MixedList}

\* after mount: the scene effect has built the scene and run its first
\* frame, the affiliation effect has run with an undefined list
Init ==
    /\ PageInit
    /\ affiliations = Undefined
    /\ validAffiliations = <<>>
    /\ rotationY = 1000
    /\ targetRotationY = 0
    /\ isRotating = FALSE
    /\ sceneChildren = <<GlobeGroup, Node("ambientLight", 0), Node("directionalLight", 0)>>
    /\ globeChildren = <<Node("sphere", 0)>>
    /\ groups = <<>>
    /\ geometries = {}
    /\ materials = {}
    /\ markerGroupRef = NoGroup
    /\ curveGroupRef = NoGroup
    /\ pulseGroupRef = NoGroup
    /\ lastRender = {}
    /\ updates = 0
    /\ frames = 0
    /\ call = NoCall
    /\ mounted = TRUE
    /\ imageLoad = "pending"

Update == \E list \in AffLists : UpdateAffiliations(list)

\* variant: the loop is started from the image-load callback
LoopRunningAfterLoad == mounted /\ imageLoad = "loaded"

\* variant: the frame request survives the unmount
LoopRunningUncancelled == TRUE

\* a frame is pending: renderScene re-requests itself on every run (line 120)
\* and only the cleanup on unmount cancels the request (line 140)
LoopRunning == mounted

Frame == LoopRunning /\ frames < MaxFrames /\ \E now \in Clock : renderScene(now)

Next == Update \/ Frame

Spec == Init /\ [][Next]_vars

(***************************************************************************)
(* One affiliation update of a freshly mounted globe, the list drawn from  *)
(* every combination of flag and (null) coordinates.                       *)
(***************************************************************************)
FilterPool == { Aff(g, lat, lon) : g \in BOOLEAN, lat \in {NULL, 10}, lon \in {NULL, 20, 30} }

FilterLists == SeqsUpTo(FilterPool, MaxFilterLen) \cup {Undefined}

FilterUpdate == updates < 1 /\ \E list \in FilterLists : UpdateAffiliations(list)

SpecFilter == Init /\ [][FilterUpdate]_vars

(***************************************************************************)
(* The rotation controller on its own: seeking from angle 0 toward a       *)
(* target in [-pi, pi], no update arriving.                                *)
(***************************************************************************)
SeekTargets == { -PI, -1570796, -200000, -10000, -9999, 0, 5000, 9999, 10000,
                 10001, 1570796, 3000000, PI }

SeekInit ==
    /\ PageInit
    /\ affiliations = Undefined
    /\ validAffiliations = <<>>
    /\ rotationY = 0
    /\ targetRotationY \in SeekTargets
    /\ isRotating = TRUE
    /\ sceneChildren = <<GlobeGroup, Node("ambientLight", 0), Node("directionalLight", 0)>>
    /\ globeChildren = <<Node("sphere", 0)>>
    /\ groups = <<>>
    /\ geometries = {}
    /\ materials = {}
    /\ markerGroupRef = NoGroup
    /\ curveGroupRef = NoGroup
    /\ pulseGroupRef = NoGroup
    /\ lastRender = {}
    /\ updates = 0
    /\ frames = 0
    /\ call = NoCall
    /\ mounted = TRUE
    /\ imageLoad = "pending"

SeekFrame == LoopRunning /\ frames < MaxSeekFrames /\ \E now \in Clock : renderScene(now)

SpecSeek == SeekInit /\ [][SeekFrame]_vars

(***************************************************************************)
(* The rotation controller seeking from an angle that idle spinning (or an *)
(* earlier seek) has taken anywhere, also many turns away from the target. *)
(***************************************************************************)
WrapAngles == { -100000000, -20000000, -PI - 1, -PI, -1000, 0, 1000, 3000000,
                PI, PI + 1, 7000000, 50000000 }

WrapInit ==
    /\ PageInit
    /\ affiliations = Undefined
    /\ validAffiliations = <<>>
    /\ rotationY \in WrapAngles
    /\ targetRotationY \in SeekTargets
    /\ isRotating = TRUE
    /\ sceneChildren = <<GlobeGroup, Node("ambientLight", 0), Node("directionalLight", 0)>>
    /\ globeChildren = <<Node("sphere", 0)>>
    /\ groups = <<>>
    /\ geometries = {}
    /\ materials = {}
    /\ markerGroupRef = NoGroup
    /\ curveGroupRef = NoGroup
    /\ pulseGroupRef = NoGroup
    /\ lastRender = {}
    /\ updates = 0
    /\ frames = 0
    /\ call = NoCall
    /\ mounted = TRUE
    /\ imageLoad = "pending"

SpecWrap == WrapInit /\ [][SeekFrame]_vars

(***************************************************************************)
(* createCurvesBetweenMarkers called directly, with either closeLoop.      *)
(***************************************************************************)
PointPool == { Aff(TRUE, 0, 0), Aff(TRUE, 30, -90), Aff(TRUE, -60, 120), Aff(TRUE, 90, 45) }

PointLists == SeqsUpTo(PointPool, MaxPoints)

CallCreateCurves ==
    /\ call = NoCall
    /\ \E affs \in PointLists, closeLoop \in BOOLEAN :
          call' = [fn |-> "createCurvesBetweenMarkers",
                   args |-> <<affs, closeLoop>>,
                   result |-> createCurvesBetweenMarkers(affs, closeLoop, 1),
                   warnings |-> createCurvesWarnings(affs)]
    /\ UNCHANGED <<pageVars, affiliations, validAffiliations, rotationY, targetRotationY,
                   isRotating, sceneChildren, globeChildren, groups, geometries,
                   materials, markerGroupRef, curveGroupRef, pulseGroupRef,
                   lastRender, updates, frames, mounted, imageLoad>>

SpecCurves == Init /\ [][CallCreateCurves]_vars

(***************************************************************************)
(* One affiliation update whose entries carry the flag but may lie outside *)
(* the coordinate ranges.                                                  *)
(***************************************************************************)
RangePool == { Aff(TRUE, 10, 20), Aff(TRUE, 90, 180), Aff(TRUE, 100, 20),
               Aff(TRUE, -91, 20), Aff(TRUE, 10, 200), Aff(TRUE, 10, -181) }

RangeLists == SeqsUpTo(RangePool, MaxFilterLen)

RangeUpdate == updates < 1 /\ \E list \in RangeLists : UpdateAffiliations(list)

SpecRange == Init /\ [][RangeUpdate]_vars

(***************************************************************************)
(* removeMarkers / removeCurves called directly on the groups that one     *)
(* affiliation update has built, any number of times.                      *)
(***************************************************************************)
RemoveFns == {"removeMarkers", "removeCurves"}

RemoveUpdate == updates < 1 /\ \E list \in AffLists : UpdateAffiliations(list)

\* fn(scene, group); the call record keeps the children the group had when
\* it was passed
CallRemove(fn, gid) ==
    /\ \E w \in {IF fn = "removeMarkers" THEN removeMarkers(World, gid)
                                        ELSE removeCurves(World, gid)} :
          /\ sceneChildren' = w.scene
          /\ globeChildren' = w.globe
          /\ groups' = w.groups
          /\ geometries' = w.geometries
          /\ materials' = w.materials
    /\ call' = [fn |-> fn, args |-> <<gid, groups[gid].children>>,
                result |-> <<>>, warnings |-> <<>>]
    /\ UNCHANGED <<pageVars, affiliations, validAffiliations, rotationY, targetRotationY,
                   isRotating, markerGroupRef, curveGroupRef, pulseGroupRef,
                   lastRender, updates, frames, mounted, imageLoad>>

Remove == \E fn \in RemoveFns, gid \in DOMAIN groups : CallRemove(fn, gid)

SpecRemove == Init /\ [][RemoveUpdate \/ Remove]_vars

(***************************************************************************)
(* The whole life of one mount: the world-map image arrives or fails,      *)
(* affiliation updates and frames interleave, the component unmounts.      *)
(***************************************************************************)
NoImageData == "none"

NoLandmass == Node("null", 0)

\* landmass.ts: null without image data, else one merged mesh
drawLandmassOnGlobe(imageData) ==
    IF imageData = NoImageData THEN NoLandmass ELSE Node("landmass", 0)

\* the onLoad callback of imageLoader.load; imgData is undefined when the
\* canvas gives no 2d context.  Nothing cancels the load at unmount.
ImageLoaded(imgData) ==
    /\ imageLoad = "pending"
    /\ imageLoad' = "loaded"
    /\ globeChildren' =
          IF imgData # NoImageData /\ drawLandmassOnGlobe(imgData) # NoLandmass
          THEN ObjAdd(globeChildren, drawLandmassOnGlobe(imgData))
          ELSE globeChildren
    /\ UNCHANGED <<pageVars, affiliations, validAffiliations, rotationY, targetRotationY,
                   isRotating, sceneChildren, groups, geometries, materials,
                   markerGroupRef, curveGroupRef, pulseGroupRef, lastRender,
                   updates, frames, call, mounted>>

\* the load fails: imageLoader.load was given no onError callback, and
\* nothing starts a second load
ImageFailed ==
    /\ imageLoad = "pending"
    /\ imageLoad' = "failed"
    /\ UNCHANGED <<pageVars, affiliations, validAffiliations, rotationY, targetRotationY,
                   isRotating, sceneChildren, globeChildren, groups, geometries,
                   materials, markerGroupRef, curveGroupRef, pulseGroupRef,
                   lastRender, updates, frames, call, mounted>>

\* React unmounts Globe: the cleanup of the scene effect runs (the
\* affiliation effect returns no cleanup).  It cancels the pending frame,
\* detaches the canvas and disposes the renderer; no geometry or material
\* of the scene is disposed and the scene graph is left as it is.
Unmount ==
    /\ mounted
    /\ mounted' = FALSE
    /\ UNCHANGED <<pageVars, affiliations, validAffiliations, rotationY, targetRotationY,
                   isRotating, sceneChildren, globeChildren, groups, geometries,
                   materials, markerGroupRef, curveGroupRef, pulseGroupRef,
                   lastRender, updates, frames, call, imageLoad>>

\* the affiliation lists of this exploration
LifeLists == { Undefined, << Aff(TRUE, 0, 0) >>, MixedList }

LifeUpdate == \E list \in LifeLists : UpdateAffiliations(list)

ImageEvent == ImageFailed \/ \E imgData \in {NoImageData, "pixels"} : ImageLoaded(imgData)

SpecLifecycle == Init /\ [][LifeUpdate \/ Frame \/ ImageEvent \/ Unmount]_vars

(***************************************************************************)
(* calculateArcHeight called directly on two points of one great circle    *)
(* (the equator, or the meridian through longitude 30 / -150), each named  *)
(* by its angle along the circle in degrees and its distance from the      *)
(* origin.                                                                 *)
(***************************************************************************)
ArcAngles == {-165, -120, -45, 0, 15, 30, 90, 135, 180}

ArcRadii == {500, 1005, 2000}

ArcPoints == [circle : {"equator", "meridian"}, deg : ArcAngles, radius : ArcRadii]

\* the position of a point of ArcPoints
ArcPosition(p) ==
    IF p.circle = "equator" THEN latLonToVector3(0, p.deg, p.radius)
    ELSE IF Abs(p.deg) <= 90 THEN latLonToVector3(p.deg, 30, p.radius)
    ELSE latLonToVector3(Sign(p.deg) * 180 - p.deg, -150, p.radius)

CallArcHeight ==
    /\ call = NoCall
    /\ \E a \in ArcPoints, b \in ArcPoints :
          /\ a.circle = b.circle
          /\ call' = [fn |-> "calculateArcHeight",
                      args |-> <<a, b>>,
                      result |-> calculateArcHeight(ArcPosition(a), ArcPosition(b)),
                      warnings |-> <<>>]
    /\ UNCHANGED <<pageVars, affiliations, validAffiliations, rotationY, targetRotationY,
                   isRotating, sceneChildren, globeChildren, groups, geometries,
                   materials, markerGroupRef, curveGroupRef, pulseGroupRef,
                   lastRender, updates, frames, mounted, imageLoad>>

SpecArc == Init /\ [][CallArcHeight]_vars

(***************************************************************************)
(* createSelfLoopCurve called directly, on points at, next to and away     *)
(* from the poles.                                                         *)
(***************************************************************************)
LoopLatitudes == {-90, -85, -82, -81, -45, 0, 30, 81, 82, 85, 90}

LoopLongitudes == {-180, -135, -90, -45, 0, 30, 45, 90, 120, 180}

CallSelfLoop ==
    /\ call = NoCall
    /\ \E lat \in LoopLatitudes, lon \in LoopLongitudes :
          call' = [fn |-> "createSelfLoopCurve",
                   args |-> <<Aff(TRUE, lat, lon)>>,
                   result |-> createSelfLoopCurve(Aff(TRUE, lat, lon), 1),
                   warnings |-> <<>>]
    /\ UNCHANGED <<pageVars, affiliations, validAffiliations, rotationY, targetRotationY,
                   isRotating, sceneChildren, globeChildren, groups, geometries,
                   materials, markerGroupRef, curveGroupRef, pulseGroupRef,
                   lastRender, updates, frames, mounted, imageLoad>>

SpecLoop == Init /\ [][CallSelfLoop]_vars

(***************************************************************************)
(* Updates and frames, the frames at wall-clock times whose sine is known: *)
(* 2t = 0, 30, 90, 180, 270 and 330 degrees.                               *)
(***************************************************************************)
PulseClock == {0, 262, 785, 1571, 2356, 2880}

PulseFrame == LoopRunning /\ frames < MaxFrames /\ \E now \in PulseClock : renderScene(now)

SpecPulse == Init /\ [][LifeUpdate \/ PulseFrame]_vars

(***************************************************************************)
(* latLonToVector3 called directly over the whole coordinate range.        *)
(***************************************************************************)
CoordLatitudes == {-90, -75, -60, -45, -30, -15, 0, 15, 30, 45, 60, 75, 90}

CoordLongitudes == {-180, -150, -120, -90, -60, -30, 0, 30, 60, 90, 120, 150, 180}

CoordRadii == {250, 500, 1000, 1005, 2000}

CallLatLonToVector3 ==
    /\ call = NoCall
    /\ \E lat \in CoordLatitudes, lon \in CoordLongitudes, radius \in CoordRadii :
          call' = [fn |-> "latLonToVector3",
                   args |-> <<lat, lon, radius>>,
                   result |-> latLonToVector3(lat, lon, radius),
                   warnings |-> <<>>]
    /\ UNCHANGED <<pageVars, affiliations, validAffiliations, rotationY, targetRotationY,
                   isRotating, sceneChildren, globeChildren, groups, geometries,
                   materials, markerGroupRef, curveGroupRef, pulseGroupRef,
                   lastRender, updates, frames, mounted, imageLoad>>

SpecCoord == Init /\ [][CallLatLonToVector3]_vars

(***************************************************************************)
(* One affiliation update of a freshly mounted globe with a list of valid  *)
(* affiliations at distinct places (one of them the north pole).           *)
(***************************************************************************)
NetworkUpdate == updates < 1 /\ \E list \in PointLists : UpdateAffiliations(list)

SpecNetwork == Init /\ [][NetworkUpdate]_vars

(***************************************************************************)
(* Updates and frames interleaved, the lists chosen so that every early    *)
(* return of the effect and both curve shapes occur.                       *)
(***************************************************************************)
ControlLists == LifeLists \cup { <<>>, << Aff(TRUE, NULL, 30) >>,
                                 << Aff(FALSE, 10, 20), Aff(TRUE, 0, 0), Aff(TRUE, 30, -90) >> }

ControlUpdate == \E list \in ControlLists : UpdateAffiliations(list)

SpecControl == Init /\ [][ControlUpdate \/ Frame]_vars

(***************************************************************************)
(* createCurvesBetweenMarkers called directly on two places, among them    *)
(* two places opposite each other on the globe.  In double arithmetic the  *)
(* positions of (-76, -160) and (76, 20) are exact negatives of each       *)
(* other, as they are here; no other two places of the pool are opposite.  *)
(***************************************************************************)
JoinPool == { Aff(TRUE, 0, 0), Aff(TRUE, 30, -90), Aff(TRUE, -30, 60), Aff(TRUE, 45, 45),
              Aff(TRUE, 76, 20), Aff(TRUE, -76, -160), Aff(TRUE, 90, 0), Aff(TRUE, -60, 120),
              Aff(TRUE, 10, 170), Aff(TRUE, 0, -135) }

CallJoin ==
    /\ call = NoCall
    /\ \E a \in JoinPool, b \in JoinPool :
          call' = [fn |-> "createCurvesBetweenMarkers",
                   args |-> << <<a, b>>, FALSE >>,
                   result |-> createCurvesBetweenMarkers(<<a, b>>, FALSE, 1),
                   warnings |-> createCurvesWarnings(<<a, b>>)]
    /\ UNCHANGED <<pageVars, affiliations, validAffiliations, rotationY, targetRotationY,
                   isRotating, sceneChildren, globeChildren, groups, geometries,
                   materials, markerGroupRef, curveGroupRef, pulseGroupRef,
                   lastRender, updates, frames, mounted, imageLoad>>

SpecJoin == Init /\ [][CallJoin]_vars

(***************************************************************************)
(***************************************************************************)
(* The page: category changes, Next clicks and the responses of the paper  *)
(* fetches, which arrive in any order.  The globe is left alone.           *)
(***************************************************************************)
GlobeUnchanged ==
    UNCHANGED <<affiliations, validAffiliations, rotationY, targetRotationY, isRotating,
                sceneChildren, globeChildren, groups, geometries, materials,
                markerGroupRef, curveGroupRef, pulseGroupRef, lastRender, updates,
                frames, call, mounted, imageLoad>>

\* the dropdown's onChange and the category effect it triggers (the select
\* is never disabled)
SelectCategory ==
    /\ \E category \in Categories \ {selectedCategory} :
          /\ selectedCategory' = category
          /\ currentIndex' = 0
          /\ fetchPaper(category, 0)
    /\ UNCHANGED paperData
    /\ GlobeUnchanged

\* handleNext; the button is disabled while loading or without a next paper
handleNext ==
    /\ ~loading
    /\ paperData.has_more
    /\ currentIndex' = currentIndex + 1
    /\ fetchPaper(selectedCategory, currentIndex + 1)
    /\ UNCHANGED <<selectedCategory, paperData>>
    /\ GlobeUnchanged

\* the rest of fetchPaper for the request f once its response is in: the
\* paper the server has for the requested category and index
FetchSucceeds(f) ==
    /\ f \in fetches
    /\ fetches' = fetches \ {f}
    /\ \E has_more \in BOOLEAN :
          paperData' = [category |-> f.category, index |-> f.index, has_more |-> has_more]
    /\ loading' = FALSE
    /\ UNCHANGED <<selectedCategory, currentIndex, error, requests>>
    /\ GlobeUnchanged

\* the rest of fetchPaper when fetch throws or the response is not ok
FetchFails(f) ==
    /\ f \in fetches
    /\ fetches' = fetches \ {f}
    /\ error' = "Failed to fetch paper"
    /\ loading' = FALSE
    /\ UNCHANGED <<selectedCategory, currentIndex, paperData, requests>>
    /\ GlobeUnchanged

FetchResolves == \E f \in fetches : FetchSucceeds(f) \/ FetchFails(f)

SpecPage == Init /\ [][SelectCategory \/ handleNext \/ FetchResolves]_vars

(* Properties.                                                             *)
(***************************************************************************)
\* the valid subset as the specification words it: the entries with the
\* flag set and both coordinates present, in input order
ValidSubset(list) ==
    IF list = Undefined THEN <<>>
    ELSE SelectSeq(list, LAMBDA a : a.geocoded = TRUE /\ a.latitude # NULL /\ a.longitude # NULL)

\* the groups that are descendants of the scene
AttachedGroups == {g \in DOMAIN groups : Attached(sceneChildren, globeChildren, g)}

\* the attached groups of a kind that still hold meshes
Shown(kind) == {g \in AttachedGroups : groups[g].kind = kind /\ groups[g].children # <<>>}

\* the number of curve segments the effect builds for n valid affiliations
SegmentsFor(n) == IF n = 0 THEN 0 ELSE IF n <= 2 THEN 1 ELSE n

\* C1: the valid subset computed by an affiliation update is exactly the
\* entries with geocoded = true and non-null latitude and longitude, in
\* input order
C1_ValidSubset ==
    updates > 0 => validAffiliations = ValidSubset(affiliations)

C1_Witness ==
    /\ updates = 1
    /\ Len(affiliations) = 3
    /\ Len(validAffiliations) = 1
    /\ \E i \in 1..3 : affiliations[i].geocoded /\ affiliations[i].latitude = NULL
    /\ \E i \in 1..3 : ~affiliations[i].geocoded /\ affiliations[i].latitude # NULL
                        /\ affiliations[i].longitude # NULL

\* C2: after an affiliation update the displayed marker group holds one
\* marker per valid affiliation of the newest list, in order, and nothing
\* built for an earlier list is displayed
C2_MarkersOfNewestList ==
    /\ \A g \in Shown("markers") \cup Shown("curves") : groups[g].list = updates
    /\ IF ValidSubset(affiliations) = <<>>
       THEN Shown("markers") = {}
       ELSE /\ Shown("markers") = {markerGroupRef}
            /\ LET valid == ValidSubset(affiliations)
                   shown == groups[markerGroupRef].children
               IN  /\ Len(shown) = Len(valid)
                   /\ \A i \in DOMAIN valid :
                         shown[i].path = <<latLonToVector3(valid[i].latitude,
                                                           valid[i].longitude, 1005)>>

C2_Witness ==
    /\ updates = 2
    /\ Len(groups) = 4
    /\ Len(ValidSubset(affiliations)) = 2
    /\ Len(groups[markerGroupRef].children) = 2

\* C3: createCurvesBetweenMarkers on n >= 2 points gives n-1 arcs between
\* consecutive points, plus one closing arc from the last point to the
\* first iff closeLoop and n > 2
C3_SegmentCount ==
    call.fn = "createCurvesBetweenMarkers" /\ Len(call.args[1]) >= 2 =>
        LET affs == call.args[1]
            closeLoop == call.args[2]
            n == Len(affs)
            pos(i) == latLonToVector3(affs[i].latitude, affs[i].longitude, 1005)
            segs == call.result
        IN  /\ Len(segs) = (n - 1) + (IF closeLoop /\ n > 2 THEN 1 ELSE 0)
            /\ \A i \in 1..(n - 1) :
                  /\ segs[i].path[1] = pos(i)
                  /\ segs[i].path[Len(segs[i].path)] = pos(i + 1)
            /\ Len(segs) = n =>
                  /\ segs[n].path[1] = pos(n)
                  /\ segs[n].path[Len(segs[n].path)] = pos(1)

C3_Witness ==
    /\ call.fn = "createCurvesBetweenMarkers"
    /\ Len(call.args[1]) = 2
    /\ call.args[2] = TRUE
    /\ Len(call.result) = 1

\* C4: an update with a valid affiliation leaves the controller seeking the
\* target of the new list's first valid affiliation, whatever it was doing
\* before; frames never bring an earlier target back
C4_NewTargetOverwrites ==
    [][ /\ (updates' # updates /\ ValidSubset(affiliations') # <<>>) =>
              /\ isRotating'
              /\ targetRotationY' \in TargetsOf(ValidSubset(affiliations')[1])
        /\ frames' # frames => targetRotationY' = targetRotationY ]_vars

C4_Witness ==
    /\ updates = 2
    /\ frames = 1
    /\ rotationY < 0
    /\ isRotating
    /\ targetRotationY = 0

\* C5: from angle 0, seeking frames strictly decrease |diff| and the
\* controller has snapped to the target after fewer than 200 frames
C5_SeekConverges ==
    [][ /\ (isRotating /\ isRotating') =>
              Abs(ShortestDiff(targetRotationY, rotationY'))
                  < Abs(ShortestDiff(targetRotationY, rotationY))
        /\ (isRotating /\ ~isRotating') => rotationY' = targetRotationY
        /\ isRotating' => frames' < 199 ]_vars

C5_Witness ==
    /\ ~isRotating
    /\ targetRotationY = 3141593
    /\ rotationY = 3141593
    /\ frames > 100

\* C6: a seeking frame that measures |diff| < 0.01 ends on the target in
\* Idle-Spin; one that measures |diff| >= 0.01 ends still seeking
C6_SnapThreshold ==
    [][ (isRotating /\ frames' # frames) =>
            LET diff == ShortestDiff(targetRotationY, rotationY)
            IN  IF Abs(diff) < 10000
                THEN rotationY' = targetRotationY /\ ~isRotating'
                ELSE isRotating' ]_vars

C6_Witness ==
    /\ ~isRotating
    /\ targetRotationY = -1570796
    /\ rotationY = -1570796

\* C7: a group handed to removeMarkers / removeCurves is no longer a
\* descendant of the scene and all its geometries and materials are released
C7_RemovedGroupDetached ==
    \A g \in DOMAIN groups :
        g \notin {markerGroupRef, curveGroupRef} =>
            /\ g \notin AttachedGroups
            /\ \A r \in geometries \cup materials : r[1] # g

\* C8: the resources of superseded lists are released when the update
\* completes; the unreleased ones never exceed what the newest list needs
C8_NoLeakedResources ==
    LET n == Len(ValidSubset(affiliations))
    IN  /\ \A r \in geometries \cup materials :
              r[1] \in {markerGroupRef, curveGroupRef} /\ groups[r[1]].list = updates
        /\ Cardinality(geometries) <= n + SegmentsFor(n)
        /\ Cardinality(materials) <= n + SegmentsFor(n)

C8_Witness ==
    /\ updates = 2
    /\ Len(groups) = 4
    /\ Cardinality(geometries) = 6

\* C9: every render frame draws the markers and the curves of one and the
\* same list, the newest, complete
C9_FrameSeesOneList ==
    [][ frames' # frames =>
            LET n == Len(ValidSubset(affiliations))
            IN  /\ \A m \in lastRender' : m[2] = updates
                /\ Cardinality({m \in lastRender' : m[1] = "markers"}) = n
                /\ Cardinality({m \in lastRender' : m[1] = "curves"}) = SegmentsFor(n) ]_vars

C9_Witness ==
    /\ updates = 2
    /\ frames = 2
    /\ Len(groups) = 4
    /\ \E m \in lastRender : m[1] = "curves" /\ m[2] = 2

\* C10: an update whose list is undefined, empty or without a valid
\* affiliation ends with a bare globe: earlier markers and curves removed,
\* nothing new created
C10_BareGlobe ==
    [][ (updates' # updates /\ ValidSubset(affiliations') = <<>>) =>
            /\ Len(groups') = Len(groups)
            /\ \A g \in DOMAIN groups' :
                  Attached(sceneChildren', globeChildren', g) => groups'[g].children = <<>>
            /\ markerGroupRef' = NoGroup
            /\ curveGroupRef' = NoGroup
            /\ pulseGroupRef' = NoGroup ]_vars

C10_Witness ==
    /\ updates = 2
    /\ Len(groups) = 2
    /\ affiliations # Undefined
    /\ Len(affiliations) = 2
    /\ markerGroupRef = NoGroup


\* the entries with the flag set and both coordinates inside their ranges
InRangeSubset(list) ==
    IF list = Undefined THEN <<>>
    ELSE SelectSeq(list, LAMBDA a : /\ a.geocoded = TRUE
                                    /\ a.latitude \in -90..90
                                    /\ a.longitude \in -180..180)

\* C11: an affiliation with geocoded = true whose latitude is outside
\* [-90, 90] or whose longitude is outside [-180, 180] is treated as invalid:
\* it is not in the valid subset, gets no marker, is no curve endpoint and
\* is not the source of the rotation target
C11_OutOfRangeInvalid ==
    updates > 0 =>
        LET ok == InRangeSubset(affiliations)
        IN  /\ validAffiliations = ok
            /\ IF ok = <<>> THEN markerGroupRef = NoGroup
               ELSE /\ markerGroupRef # NoGroup
                    /\ groups[markerGroupRef].children = createAffiliationMarkers(ok, markerGroupRef)
                    /\ Len(groups[curveGroupRef].children) = SegmentsFor(Len(ok))
                    /\ targetRotationY \in TargetsOf(ok[1])

\* C12: createCurvesBetweenMarkers called with fewer than 2 points returns
\* an empty curve group and logs a warning
C12_FewPointsWarn ==
    (call.fn = "createCurvesBetweenMarkers" /\ Len(call.args[1]) < 2) =>
        /\ call.result = <<>>
        /\ call.warnings # <<>>

\* C13: removeMarkers / removeCurves always leaves the group it is given
\* empty, and a call on a group that has no children (in particular a second
\* call in a row on the same group) changes nothing in the scene graph or in
\* the live resources
C13_RemoveIdempotent ==
    [][\A fn \in RemoveFns, gid \in DOMAIN groups :
          CallRemove(fn, gid) =>
             /\ groups'[gid].children = <<>>
             /\ groups[gid].children = <<>> =>
                   UNCHANGED <<sceneChildren, globeChildren, groups, geometries, materials>>]_vars

\* a second call in a row on the same group has been made
C13_Witness ==
    /\ call.fn \in RemoveFns
    /\ call.args[2] = <<>>
    /\ groups[call.args[1]].children = <<>>
    /\ Len(globeChildren) = 3

\* C14: once the component has unmounted, the geometries and materials of
\* the marker group and the curve group that were displayed are released
C14_UnmountReleases ==
    ~mounted =>
        \A g \in {markerGroupRef, curveGroupRef} \ {NoGroup} :
            \A i \in DOMAIN groups[g].children :
                /\ groups[g].children[i].geometry \notin geometries
                /\ groups[g].children[i].material \notin materials

\* C15: once the world-map image load has failed, the load stays failed (no
\* reload), no landmass is ever in the globe group, and while the component
\* is mounted the next render frame can still run; each such frame advances
\* the rotation controller (the angle moves, or the seek ends on its target)
C15_FailedLoadIsFinal ==
    /\ [](imageLoad = "failed" =>
             /\ drawLandmassOnGlobe("pixels") \notin Range(globeChildren)
             /\ (mounted /\ frames < MaxFrames) => ENABLED Frame)
    /\ [][imageLoad = "failed" =>
             /\ imageLoad' = "failed"
             /\ frames' # frames =>
                   <<rotationY, isRotating>>' # <<rotationY, isRotating>>]_vars

\* frames have run after the load failed, markers pulsing
C15_Witness ==
    /\ imageLoad = "failed"
    /\ frames = MaxFrames
    /\ pulseGroupRef # NoGroup
    /\ \E r \in lastRender : r[1] = "markers" /\ r[4] # 1000

\* the angular separation, in degrees, of two points of one great circle
Separation(a, b) ==
    LET d == Abs(a.deg - b.deg)
    IN  IF d > 180 THEN 360 - d ELSE d

LoopTangentOf(path) == VAdd(path[2], VScale(path[3], -1000))

\* C17: the tangent of a self loop is never zero and is perpendicular to the
\* radial direction of the point; at the north and south pole, where the y
\* axis is parallel to the radial direction, the x axis is the reference
\* axis, which makes the tangent (0, 0, 1) resp. (0, 0, -1)
C17_SelfLoopTangent ==
    call.fn = "createSelfLoopCurve" =>
        LET path == call.result[1].path
            radialDir == VNormalize(path[1])
            tangent == LoopTangentOf(path)
            lat == call.args[1].latitude
        IN  /\ VLength(tangent) \in 995..1005
            /\ Abs(VDot(tangent, radialDir)) <= 3
            /\ lat = 90 => tangent = <<0, 0, 1000>>
            /\ lat = -90 => tangent = <<0, 0, -1000>>

\* a self loop at a pole
C17_Witness ==
    /\ call.fn = "createSelfLoopCurve"
    /\ call.args[1].latitude = 90
    /\ call.result[1].path[1] = <<0, MARKER_RADIUS, 0>>
    /\ LoopTangentOf(call.result[1].path) = <<0, 0, 1000>>

\* 1 + sin(2t) * 0.3 at the times of PulseClock, in thousandths
PulseScaleAt(now) ==
    CASE now = 0 -> 1000
      [] now = 262 -> 1150
      [] now = 785 -> 1300
      [] now = 1571 -> 1000
      [] now = 2356 -> 700
      [] now = 2880 -> 850

C19_OnSphere ==
    call.fn = "latLonToVector3" =>
        Abs(VLength(call.result) - call.args[3]) <= 3

\* a point off the axes on a sphere that is not the unit sphere
C19_Witness ==
    /\ call.fn = "latLonToVector3"
    /\ call.args = <<45, 60, 2000>>
    /\ \A k \in 1..3 : Abs(call.result[k]) > 500

\* C20: the curve group built by an affiliation update with n valid
\* affiliations holds, for n = 1, one self-loop segment that starts and ends
\* at the marker; for n = 2, one arc from the first marker to the second;
\* for n >= 3, n arcs, the i-th from marker i to marker i + 1 and the last
\* back to marker 1
C20_CurveNetwork ==
    (updates > 0 /\ validAffiliations # <<>>) =>
        LET n == Len(validAffiliations)
            markers == groups[markerGroupRef].children
            segs == groups[curveGroupRef].children
        IN  /\ curveGroupRef \in Shown("curves")
            /\ Len(markers) = n
            /\ n = 1 => /\ Len(segs) = 1
                        /\ Len(segs[1].path) = 4
                        /\ segs[1].path[1] = markers[1].path[1]
                        /\ segs[1].path[4] = markers[1].path[1]
            /\ n = 2 => /\ Len(segs) = 1
                        /\ Len(segs[1].path) = 3
                        /\ segs[1].path[1] = markers[1].path[1]
                        /\ segs[1].path[3] = markers[2].path[1]
            /\ n >= 3 => /\ Len(segs) = n
                         /\ \A i \in 1..n :
                               /\ Len(segs[i].path) = 3
                               /\ segs[i].path[1] = markers[i].path[1]
                               /\ segs[i].path[3] = markers[(i % n) + 1].path[1]

\* a ring over three markers at three different places
C20_Witness ==
    /\ updates = 1
    /\ Len(validAffiliations) = 3
    /\ Cardinality(Range(validAffiliations)) = 3
    /\ Len(groups[curveGroupRef].children) = 3
    /\ groups[curveGroupRef].children[3].path[3] = groups[curveGroupRef].children[1].path[1]

\* C21: the diff a seeking frame measures lies in [-pi, pi] and differs from
\* target - current by a whole number of turns, whatever the current angle;
\* a frame that does not snap moves the angle toward the target along that
\* diff, by no more than 0.05 * pi
C21_ShortestDiff ==
    [][ (isRotating /\ frames' # frames) =>
            LET diff == ShortestDiff(targetRotationY, rotationY)
            IN  /\ diff \in -PI..PI
                /\ (targetRotationY - rotationY - diff) % (2 * PI) = 0
                /\ isRotating' =>
                      /\ Abs(rotationY' - rotationY) <= 157080
                      /\ Sign(rotationY' - rotationY) = Sign(diff)
                      /\ Abs(ShortestDiff(targetRotationY, rotationY')) < Abs(diff) ]_vars

\* frames have run of a seek whose angle is many turns away from its target
C21_Witness ==
    /\ isRotating
    /\ frames > 1
    /\ rotationY > 49000000
    /\ targetRotationY = -1570796

FirstValidOf(list) ==
    list[CHOOSE i \in DOMAIN list :
            /\ ValidSubset(<<list[i]>>) # <<>>
            /\ \A j \in 1..(i - 1) : ValidSubset(<<list[j]>>) = <<>>]

\* C23: after an affiliation update with a valid affiliation the target
\* angle is -atan2(x, z) of the radius-1 position of the first valid entry in
\* input order, so it does not depend on the entries before or after it
C23_TargetFromFirstValid ==
    (updates > 0 /\ ValidSubset(affiliations) # <<>>) =>
        LET first == FirstValidOf(affiliations)
            position == latLonToVector3(first.latitude, first.longitude, 1000)
        IN  /\ position[1] # 0 \/ position[3] # 0
            /\ targetRotationY = -(Atan2M(position[1], position[3]) * 1000)
            /\ isRotating

\* the first valid entry comes after an invalid one and before a valid one
\* at another place
C23_Witness ==
    /\ updates = 1
    /\ Len(affiliations) = 3
    /\ ValidSubset(<<affiliations[1]>>) = <<>>
    /\ Len(validAffiliations) = 2
    /\ validAffiliations[1] # validAffiliations[2]
    /\ isRotating

\* C24: the current rotation angle changes only in render frames; an
\* affiliation update leaves it as it is (writing at most the target angle and
\* the animating flag), and a render frame leaves the target angle as it is
C24_SingleWriter ==
    [][ /\ updates' # updates => rotationY' = rotationY
        /\ rotationY' # rotationY => (frames' = frames + 1 /\ updates' = updates)
        /\ frames' # frames => targetRotationY' = targetRotationY
        /\ targetRotationY' # targetRotationY => updates' = updates + 1 ]_vars

\* an update has retargeted a seek between two frames, the angle is the
\* frames' work
C24_Witness ==
    /\ updates = 2
    /\ frames = 2
    /\ isRotating
    /\ rotationY # 1000
    /\ rotationY # targetRotationY

\* C25: the control point of the arc joining two marker positions lies at
\* distance 1 + h from the centre, h the arc height of the pair, in the
\* direction of the midpoint of the pair, and so outside the sphere; also
\* for two positions opposite each other
C25_ControlPointAbove ==
    (call.fn = "createCurvesBetweenMarkers" /\ call.result # <<>>) =>
        LET path == call.result[1].path
            control == path[2]
            h == calculateArcHeight(path[1], path[3])
            midpoint == VScale(VAdd(path[1], path[3]), 500)
        IN  /\ Abs(VLength(control) - (1000 + h)) <= 10
            /\ VLength(control) > 1000
            /\ midpoint # <<0, 0, 0>> =>
                  Abs(VDot(control, midpoint) - Mul(VLength(control), VLength(midpoint))) <= 3

\* C26: after any sequence of affiliation updates the globe group holds at
\* most one marker group node and at most one curve group node, so the
\* number of attached group nodes does not grow with the updates
C26_OneGroupPerKind ==
    /\ Cardinality({g \in AttachedGroups : groups[g].kind = "markers"}) <= 1
    /\ Cardinality({g \in AttachedGroups : groups[g].kind = "curves"}) <= 1

\* C27: an affiliation update whose list is undefined, empty or without a
\* valid affiliation leaves the current angle, the target angle and the
\* animating flag as they were, so a seek in progress keeps its target
C27_BareUpdateKeepsRotation ==
    [][ (updates' # updates /\ ValidSubset(affiliations') = <<>>) =>
            UNCHANGED <<rotationY, targetRotationY, isRotating>> ]_vars

\* a list without a valid affiliation arrived while a seek towards the
\* previous list's first place was under way
C27_Witness ==
    /\ updates = 2
    /\ frames > 0
    /\ affiliations # Undefined
    /\ affiliations # <<>>
    /\ ValidSubset(affiliations) = <<>>
    /\ markerGroupRef = NoGroup
    /\ isRotating
    /\ rotationY # targetRotationY
    /\ targetRotationY # 0

\* C28: the marker group the render loop pulses is the displayed marker
\* group, and none when no markers are displayed: the displayed group is the
\* one pulsed, and a group an earlier update released is not pulsed; a frame
\* rescales the meshes of that group only
C28_PulsedIsDisplayed ==
    [][ /\ pulseGroupRef' = markerGroupRef'
        /\ Shown("markers")' = {pulseGroupRef'} \ {NoGroup}
        /\ \A g \in DOMAIN groups :
              (frames' # frames /\ groups'[g] # groups[g]) =>
                  /\ g = pulseGroupRef
                  /\ g \in Shown("markers")
                  /\ \A i \in DOMAIN groups[g].children :
                        /\ groups[g].children[i].geometry \in geometries
                        /\ groups[g].children[i].material \in materials ]_vars

\* a frame has pulsed the markers of the second list while the emptied
\* marker group of the first list is still known
C28_Witness ==
    /\ updates = 2
    /\ frames > 0
    /\ pulseGroupRef = 3
    /\ groups[1].kind = "markers"
    /\ groups[1].children = <<>>
    /\ \E r \in lastRender : r[1] = "markers" /\ r[2] = 2 /\ r[4] # 1000

C30_LatestFetchWins ==
    /\ ~loading => fetches = {}
    /\ (fetches = {} /\ error = NoError) =>
          /\ paperData.category = selectedCategory
          /\ paperData.index = currentIndex
====
